---- MODULE Spec2Model ----
(***************************************************************************)
(* A model of the wiki core (src/wiki/core.py): the URL normalizer, the    *)
(* link resolver, the content processor, the history store, the page and  *)
(* the wiki repository.                                                    *)
(*                                                                         *)
(* Text is a sequence of one-character strings, so that slicing, searching *)
(* and replacing are computed position by position as the code does.       *)
(* Paths follow the POSIX flavour of os.path (os.sep = "/").               *)
(***************************************************************************)
EXTENDS Integers, Sequences, FiniteSets, TLC

VARIABLES
    pc,      \* position of the modelled call sequence
    text,    \* the argument handed to the function under study
    out,     \* what the function returned (or the error it raised)
    out2,    \* the result of the follow-up call, where there is one
    files,   \* filesystem: normalized path -> content of the regular file
    dirs,    \* filesystem: set of normalized paths of the directories
    inst,    \* the Wiki object and the Page/History objects held by callers
    last,    \* the outcome of the last repository operation
    clock    \* the last reading of the system clock

vars == <<pc, text, out, out2, files, dirs, inst, last, clock>>
fnVars == <<pc, text, out, out2>>
fsVars == <<files, dirs, inst, last, clock>>

(***************************************************************************)
(* Bounds of the model.                                                    *)
(***************************************************************************)
MaxUrlLen == 4

(***************************************************************************)
(* Generic helpers on character sequences (Python str operations).         *)
(***************************************************************************)
SeqsUpTo(S, n) == UNION {[1..k -> S] : k \in 0..n}

\* the element of a set of one element; The({f(x) : x \in {e}}) is f(e) with
\* e evaluated once, where LET x == e IN f(x) evaluates e at every use of x;
\* in a nest of these the values are bound from the last line upwards
The(S) == CHOOSE it \in S : TRUE

\* s[from:] with a 1-based index
Drop(s, n) == SubSeq(s, n + 1, Len(s))

\* s.startswith(p)
StartsWith(s, p) == Len(s) >= Len(p) /\ SubSeq(s, 1, Len(p)) = p

\* str.replace(old, new): left to right, non-overlapping
RECURSIVE Replace(_, _, _)
Replace(s, old, new) ==
    IF Len(s) < Len(old) \/ Len(old) = 0 THEN s
    ELSE IF StartsWith(s, old)
         THEN new \o Replace(Drop(s, Len(old)), old, new)
         ELSE <<s[1]>> \o Replace(Tail(s), old, new)

\* characters str.strip() removes, among those the model uses
Whitespace == {" ", "\t", "\n", "\r"}

RECURSIVE LStrip(_)
LStrip(s) == IF s # <<>> /\ s[1] \in Whitespace THEN LStrip(Tail(s)) ELSE s

RECURSIVE RStrip(_)
RStrip(s) ==
    IF s # <<>> /\ s[Len(s)] \in Whitespace
    THEN RStrip(SubSeq(s, 1, Len(s) - 1)) ELSE s

\* str.strip()
Strip(s) == RStrip(LStrip(s))

\* the printable ASCII characters from code point 32 to 95, and from 97 on
Printable ==
    <<" ", "!", "\"", "#", "$", "%", "&", "'", "(", ")", "*", "+", ",", "-",
      ".", "/", "0", "1", "2", "3", "4", "5", "6", "7", "8", "9", ":", ";",
      "<", "=", ">", "?", "@", "A", "B", "C", "D", "E", "F", "G", "H", "I",
      "J", "K", "L", "M", "N", "O", "P", "Q", "R", "S", "T", "U", "V", "W",
      "X", "Y", "Z", "[", "\\", "]", "^", "_">>

PrintableLow ==
    <<"a", "b", "c", "d", "e", "f", "g", "h", "i", "j", "k", "l", "m", "n",
      "o", "p", "q", "r", "s", "t", "u", "v", "w", "x", "y", "z", "{", "|",
      "}", "~">>

\* ord(c) of a printable character, a tab or a line end
Ord(c) ==
    CASE c = "\t" -> 9
      [] c = "\n" -> 10
      [] c = "\r" -> 13
      [] \E i \in 1..Len(Printable) : Printable[i] = c
            -> 31 + CHOOSE i \in 1..Len(Printable) : Printable[i] = c
      [] OTHER -> 96 + CHOOSE i \in 1..Len(PrintableLow) : PrintableLow[i] = c

Upper == {Printable[i] : i \in 34..59}

\* str.lower()
LowerChar(c) == IF c \in Upper THEN PrintableLow[Ord(c) - 64] ELSE c

Lower(s) == [i \in 1..Len(s) |-> LowerChar(s[i])]

\* a < b for str: by code points, a proper prefix first
RECURSIVE StrLess(_, _)
StrLess(a, b) ==
    IF b = <<>> THEN FALSE
    ELSE IF a = <<>> THEN TRUE
    ELSE IF a[1] # b[1] THEN Ord(a[1]) < Ord(b[1])
    ELSE StrLess(Tail(a), Tail(b))

\* s.endswith(p)
EndsWith(s, p) == Len(s) >= Len(p) /\ SubSeq(s, Len(s) - Len(p) + 1, Len(s)) = p

(***************************************************************************)
(* clean_url (core.py 18-34)                                               *)
(***************************************************************************)
\* re.sub('[ ]{2,}', ' ', url): every maximal run of two or more spaces
\* becomes one space
RECURSIVE CollapseSpaces(_)
CollapseSpaces(s) ==
    IF Len(s) < 2 THEN s
    ELSE IF s[1] = " " /\ s[2] = " "
         THEN CollapseSpaces(Tail(s))
         ELSE <<s[1]>> \o CollapseSpaces(Tail(s))

\* url.replace('\\\\', '/').replace('\\', '/') with the doubled backslash
\* collapsed to one backslash instead of converted
BackslashesCollapsed(s) == Replace(s, <<"\\", "\\">>, <<"\\">>)

\* url.replace('\\\\', '/').replace('\\', '/')
Backslashes(s) == Replace(Replace(s, <<"\\", "\\">>, <<"/">>), <<"\\">>, <<"/">>)

clean_url(url) ==
    LET a == Strip(CollapseSpaces(url))
        b == Replace(Lower(a), <<" ">>, <<"_">>)
    IN  Backslashes(b)

(***************************************************************************)
(* Specification SpecCleanUrl: clean_url applied once, then again to its   *)
(* own result.                                                             *)
(***************************************************************************)
UrlAlphabet == {" ", "\t", "A", "a", "_", "/", "\\"}

NoFs == /\ files = <<>>
        /\ dirs = {}
        /\ inst = <<>>
        /\ last = "none"
        /\ clock = 0

InitCleanUrl ==
    /\ pc = "start"
    /\ text \in SeqsUpTo(UrlAlphabet, MaxUrlLen)
    /\ out = <<>>
    /\ out2 = <<>>
    /\ NoFs

CleanOnce ==
    /\ pc = "start"
    /\ out' = clean_url(text)
    /\ pc' = "cleaned"
    /\ UNCHANGED <<text, out2, fsVars>>

CleanAgain ==
    /\ pc = "cleaned"
    /\ out2' = clean_url(out)
    /\ pc' = "recleaned"
    /\ UNCHANGED <<text, out, fsVars>>

NextCleanUrl == CleanOnce \/ CleanAgain

SpecCleanUrl == InitCleanUrl /\ [][NextCleanUrl]_vars

\* C7: clean_url is idempotent: cleaning an already cleaned url returns it
\* unchanged, for every input over spaces, tabs, letters of both cases,
\* underscores, slashes and backslashes.
CleanUrlIdempotent == pc = "recleaned" => out2 = out

\* C7 witness: an input with a doubled backslash, a run of spaces and an
\* upper-case letter has been cleaned twice, and cleaning changed it.
CleanUrlWitness ==
    /\ pc = "recleaned"
    /\ text = <<"A", " ", " ", "\\">>
    /\ out = <<"a", "_", "/">>

(***************************************************************************)
(* Processor.find_tags and Processor.generate_contents_table               *)
(* (core.py 178-228).  Indices are Python's: 0-based, slices half-open.    *)
(* All markup is kept character by character, so that the indices the     *)
(* code measures are the indices of the model.                             *)
(***************************************************************************)
MaxSegs == 3

H1Open == <<"<", "h", "1", ">">>
H1Close == <<"<", "/", "h", "1", ">">>

\* s[a:b]
Slice(s, a, b) ==
    LET lo == IF a < 0 THEN 0 ELSE a
        hi == IF b > Len(s) THEN Len(s) ELSE b
    IN  IF hi <= lo THEN <<>> ELSE SubSeq(s, lo + 1, hi)

\* [m.start() for m in re.finditer(substr, s)] for a literal substr:
\* the matches are found left to right and do not overlap
RECURSIVE FindFrom(_, _, _)
FindFrom(substr, s, i) ==
    IF i + Len(substr) > Len(s) THEN <<>>
    ELSE IF Slice(s, i, i + Len(substr)) = substr
         THEN <<i>> \o FindFrom(substr, s, i + Len(substr))
         ELSE FindFrom(substr, s, i + 1)

find_tags(substr, given_string) == FindFrom(substr, given_string, 0)

\* final.count("<h1>")
Count(s, substr) == Len(FindFrom(substr, s, 0))

\* table_html as first assigned (186-187)
TableOpen ==
    <<"<", "d", "i", "v", " ", "c", "l", "a", "s", "s", "=", "\"", "r",
      "o", "w", "\"", ">", "<", "d", "i", "v", " ", "c", "l", "a", "s",
      "s", "=", "\"", "s", "p", "a", "n", "2", "\"", ">", "<", "h", "3",
      ">", "C", "o", "n", "t", "e", "n", "t", "s", "<", "/", "h", "3", ">",
      "<", "u", "l", " ", "c", "l", "a", "s", "s", "=", "'", "n", "a", "v",
      " ", "n", "a", "v", "-", "t", "a", "b", "s", " ", "n", "a", "v", "-",
      "s", "t", "a", "c", "k", "e", "d", "'", ">">>

\* the closing tags of the table (213)
TableClose ==
    <<"<", "/", "u", "l", ">", "<", "b", "r", ">", "<", "/", "d", "i", "v",
      ">", "<", "/", "d", "i", "v", ">">>

\* the literals of a list item (200) and of an anchor (208)
ItemOpen == <<"<", "l", "i", ">", "<", "a", " ", "h", "r", "e", "f", "=", "\"">>
ItemMid == <<"\"", ">">>
ItemClose == <<"<", "/", "a", ">", "<", "/", "l", "i", ">">>
AnchorOpen == <<"<", "a", " ", "n", "a", "m", "e", "=", "\"">>
AnchorClose == <<"\"", ">", "<", "/", "a", ">">>

\* header.replace(" ", "_"); the header.lower() of the line before is
\* overwritten and has no effect
HeaderF(header) == Replace(header, <<" ">>, <<"_">>)

\* the first loop (195-200): one list item per opening tag, in order
RECURSIVE TableItems(_, _, _, _)
TableItems(final, opens, closes, i) ==
    IF i > Len(opens) THEN <<>>
    ELSE LET header == Slice(final, opens[i] + 4, closes[i])
         IN  ItemOpen \o <<"#">> \o HeaderF(header) \o ItemMid
                \o header \o ItemClose
                \o TableItems(final, opens, closes, i + 1)

\* one pass of the second loop (205-209): the anchor goes in front of the
\* i-th opening tag, at the index found before any insertion
InsertAnchor(final, opens, closes, i) ==
    LET header == Slice(final, opens[i] + 4, closes[i])
    IN  Slice(final, 0, opens[i])
            \o AnchorOpen \o HeaderF(header) \o AnchorClose
            \o Slice(final, opens[i], Len(final))

\* the second loop run in document order, first heading first, with the
\* indices found before any insertion
RECURSIVE AnchorsForward(_, _, _, _)
AnchorsForward(final, opens, closes, i) ==
    IF i < 1 THEN final
    ELSE InsertAnchor(AnchorsForward(final, opens, closes, i - 1), opens, closes, i)

\* the second loop (204-209): range(len(header_open_loc)-1, -1, -1)
RECURSIVE Anchors(_, _, _, _)
Anchors(final, opens, closes, i) ==
    IF i < 1 THEN final
    ELSE Anchors(InsertAnchor(final, opens, closes, i), opens, closes, i - 1)

\* header_close_loc[i] of a heading that has no closing tag to pair with
IndexError == [err |-> "IndexError"]

\* the body of the if (185-216)
generate_contents_table(selfFinal, final) ==
    IF Count(final, H1Open) = 0 THEN final
    ELSE LET opens == find_tags(H1Open, selfFinal)
             closes == find_tags(H1Close, selfFinal)
         IN  IF Len(closes) < Len(opens) THEN IndexError
             ELSE TableOpen \o TableItems(final, opens, closes, 1) \o TableClose
                    \o Anchors(final, opens, closes, Len(opens))

(***************************************************************************)
(* Specification SpecToc: the last step of Processor.process (242) on a    *)
(* rendered document made of level-1 headings and other markup.            *)
(***************************************************************************)
Chars(kind, t) == [kind |-> kind, txt |-> t]

TocSegments ==
    { Chars("h1", <<"A", " ", "b">>),
      Chars("h1", <<"c">>),
      Chars("h1", <<" ", "d", " ", " ", "e">>),
      Chars("raw", <<"<", "p", ">", "x", " ", "y", "<", "/", "p", ">">>),
      Chars("raw", <<"<", "h", "2", ">", "z", "<", "/", "h", "2", ">">>) }

SegHtml(seg) ==
    IF seg.kind = "h1" THEN H1Open \o seg.txt \o H1Close ELSE seg.txt

RECURSIVE Html(_)
Html(segs) == IF segs = <<>> THEN <<>> ELSE SegHtml(Head(segs)) \o Html(Tail(segs))

InitToc ==
    /\ pc = "start"
    /\ text \in SeqsUpTo(TocSegments, MaxSegs)
    /\ out = <<>>
    /\ out2 = <<>>
    /\ NoFs

\* self.final = self.generate_contents_table(self.final)
BuildToc ==
    /\ pc = "start"
    /\ out' = generate_contents_table(Html(text), Html(text))
    /\ pc' = "toc"
    /\ UNCHANGED <<text, out2, fsVars>>

NextToc == BuildToc

SpecToc == InitToc /\ [][NextToc]_vars

\* what the table of contents is required to be, read off the document
Headings(segs) == SelectSeq(segs, LAMBDA g : g.kind = "h1")

Underscored(t) == [i \in 1..Len(t) |-> IF t[i] = " " THEN "_" ELSE t[i]]

RECURSIVE TocEntries(_)
TocEntries(hs) ==
    IF hs = <<>> THEN <<>>
    ELSE ItemOpen \o <<"#">> \o Underscored(Head(hs).txt) \o ItemMid
            \o Head(hs).txt \o ItemClose \o TocEntries(Tail(hs))

RECURSIVE AnchoredBody(_)
AnchoredBody(segs) ==
    IF segs = <<>> THEN <<>>
    ELSE (IF Head(segs).kind = "h1"
          THEN AnchorOpen \o Underscored(Head(segs).txt) \o AnchorClose
          ELSE <<>>)
            \o SegHtml(Head(segs)) \o AnchoredBody(Tail(segs))

\* C9: without a level-1 heading the html passes through unchanged; with
\* k >= 1 headings the result is the table-of-contents block, holding one
\* entry per heading in document order with href "#" + heading text with
\* underscores for spaces, followed by the body in which every heading is
\* immediately preceded by the anchor of that name and all else is unchanged.
TocAsSpecified ==
    pc = "toc" =>
        IF Headings(text) = <<>>
        THEN out = Html(text)
        ELSE out = TableOpen \o TocEntries(Headings(text)) \o TableClose
                    \o AnchoredBody(text)

\* C9 witness: a document with two headings, text between them, and spaces
\* in a heading has had its table of contents built.
TocWitness ==
    /\ pc = "toc"
    /\ Len(Headings(text)) = 2
    /\ Len(text) = 3
    /\ text[2].kind = "raw"
    /\ text[1].txt = <<"A", " ", "b">>
    /\ out # Html(text)

(***************************************************************************)
(* wikilink (core.py 37-70).                                               *)
(***************************************************************************)
\* The pattern, written without the verbose mode's layout, is
\*     ((?<!<code>)\[\[([^<].+?)\s*([|]\s*(.+?)\s*)?]])
\* and is matched here the way the backtracking matcher matches it: the
\* leftmost start, then the shortest target, the longest run of white
\* space, the optional display part tried first.  The model's texts hold
\* no backslash, so the replacement string is inserted as it stands.
CodeOpen == <<"<", "c", "o", "d", "e", ">">>
CodeClose == <<"<", "/", "c", "o", "d", "e", ">">>

\* s[i] with Python's 0-based index, "" past the end
At(s, i) == IF i >= 0 /\ i < Len(s) THEN s[i + 1] ELSE ""

\* the literal lit stands at index i of s
AtIs(s, i, lit) == i >= 0 /\ i + Len(lit) <= Len(s) /\ Slice(s, i, i + Len(lit)) = lit

\* the character "<", which [^<] refuses
StartsLt(c) == c = "<"

\* "." matches every character of s[a:b] (anything but a newline), b in range
AllDot(s, a, b) == b <= Len(s) /\ \A k \in a..(b - 1) : At(s, k) # "\n"

\* \s* taken greedily from index q: the number of characters it takes
RECURSIVE MaxWs(_, _)
MaxWs(s, q) == IF At(s, q) \in Whitespace THEN 1 + MaxWs(s, q + 1) ELSE 0

\* \s*(.+?)\s*]] from index r (just after the "|"): the ways to match, as
\* <<w, n>> = white space skipped, length of the display text
DisplayWays(s, r) ==
    { wn \in (0..MaxWs(s, r)) \X (1..Len(s)) :
        LET d == r + wn[1]
            e == d + wn[2]
        IN  /\ AllDot(s, d, e)
            /\ AtIs(s, e + MaxWs(s, e), <<"]", "]">>) }

\* the way the matcher finds first: most white space, then shortest display
DisplayFirst(s, r) ==
    CHOOSE wn \in DisplayWays(s, r) :
        \A o \in DisplayWays(s, r) :
            \/ wn[1] > o[1]
            \/ wn[1] = o[1] /\ wn[2] <= o[2]

\* the rest of the pattern after a target ending at index q matches
RestMatches(s, q) ==
    LET r == q + MaxWs(s, q)
    IN  \/ At(s, r) = "|" /\ DisplayWays(s, r + 1) # {}
        \/ AtIs(s, r, <<"]", "]">>)

\* the lookbehind as written: only "<code>" right before the brackets
\* blocks a match
NotAfterCodeTag(s, p) == ~ AtIs(s, p - 6, CodeOpen)

\* lengths n of the ".+?" part with which a match starts at index p
TargetWays(s, p) ==
    { n \in 1..Len(s) :
        /\ NotAfterCodeTag(s, p)
        /\ AtIs(s, p, <<"[", "[">>)
        /\ p + 2 < Len(s)
        /\ ~ StartsLt(At(s, p + 2))
        /\ AllDot(s, p + 3, p + 3 + n)
        /\ RestMatches(s, p + 3 + n) }

\* the match at index p: groups 2 and 4 of the pattern and where it ends
MatchAt(s, p) ==
    LET n == CHOOSE n \in TargetWays(s, p) : \A o \in TargetWays(s, p) : n <= o
        q == p + 3 + n
        r == q + MaxWs(s, q)
        grp == At(s, r) = "|" /\ DisplayWays(s, r + 1) # {}
        wn == DisplayFirst(s, r + 1)
        d == r + 1 + wn[1]
        e == d + wn[2]
    IN  [start |-> p,
         target |-> Slice(s, p + 2, q),
         display |-> IF grp THEN Slice(s, d, e) ELSE <<>>,
         end |-> IF grp THEN e + MaxWs(s, e) + 2 ELSE r + 2]

\* the start of the first match at or after index from, or -1
RECURSIVE SearchFrom(_, _)
SearchFrom(s, from) ==
    IF from >= Len(s) THEN -1
    ELSE IF TargetWays(s, from) # {} THEN from
    ELSE SearchFrom(s, from + 1)

\* link_regex.findall(text): the matches, left to right, non-overlapping
RECURSIVE FindAll(_, _)
FindAll(s, from) ==
    LET p == SearchFrom(s, from)
    IN  IF p < 0 THEN <<>>
        ELSE <<MatchAt(s, p)>> \o FindAll(s, MatchAt(s, p).end)

\* the injected url_formatter('wiki.display', url=url): stands for any
\* formatter, here the route "/<url>"
url_formatter(route, url) == <<"/">> \o url

\* the literals of "<a href='{0}'>{1}</a>"
LinkOpen == <<"<", "a", " ", "h", "r", "e", "f", "=", "'">>
LinkMid == <<"'", ">">>
LinkClose == <<"<", "/", "a", ">">>

\* "<a href='{0}'>{1}</a>".format(url_formatter(...), title)
HtmlUrl(m) ==
    LET title == IF m.display # <<>> THEN m.display ELSE m.target
        url == clean_url(m.target)
    IN  LinkOpen \o url_formatter("wiki.display", url) \o LinkMid
            \o title \o LinkClose

\* re.sub(link_regex, html_url, text, count=1): the first match of the
\* text as it is now is replaced
SubFirst(s, repl) ==
    LET p == SearchFrom(s, 0)
    IN  IF p < 0 THEN s
        ELSE Slice(s, 0, p) \o repl \o Slice(s, MatchAt(s, p).end, Len(s))

\* the loop over the matches found in the text as it was given
RECURSIVE LinkLoop(_, _)
LinkLoop(s, found) ==
    IF found = <<>> THEN s
    ELSE LinkLoop(SubFirst(s, HtmlUrl(Head(found))), Tail(found))

wikilink(s) == LinkLoop(s, FindAll(s, 0))

(***************************************************************************)
(* Specification SpecWikilink: wikilink on rendered html made of text,     *)
(* wiki links and <code> spans that hold text and wiki links.              *)
(***************************************************************************)
Link(t, d) == [kind |-> "link", target |-> t, display |-> d]
Code(inner) == [kind |-> "code", inner |-> inner]

LinkSegments ==
    { Chars("raw", <<"x", " ">>),
      Link(<<"F", "o">>, <<>>),
      Link(<<"a", " ", "B">>, <<"D">>),
      Code(<<Link(<<"F", "o">>, <<>>)>>),
      Code(<<Chars("raw", <<"x", " ">>), Link(<<"F", "o">>, <<>>)>>) }

\* the source text of a link
LinkText(g) ==
    <<"[", "[">> \o g.target
        \o (IF g.display = <<>> THEN <<>> ELSE <<"|">> \o g.display)
        \o <<"]", "]">>

RECURSIVE LinkHtml(_)
LinkHtml(segs) ==
    IF segs = <<>> THEN <<>>
    ELSE LET g == Head(segs)
         IN  (CASE g.kind = "raw" -> g.txt
                [] g.kind = "link" -> LinkText(g)
                [] g.kind = "code" -> CodeOpen \o LinkHtml(g.inner) \o CodeClose)
                \o LinkHtml(Tail(segs))

InitWikilink ==
    /\ pc = "start"
    /\ text \in SeqsUpTo(LinkSegments, MaxSegs)
    /\ out = <<>>
    /\ out2 = <<>>
    /\ NoFs

\* current = processor(current) for the one post-processor (173-176)
ResolveLinks ==
    /\ pc = "start"
    /\ out' = wikilink(LinkHtml(text))
    /\ pc' = "linked"
    /\ UNCHANGED <<text, out2, fsVars>>

NextWikilink == ResolveLinks

SpecWikilink == InitWikilink /\ [][NextWikilink]_vars

\* what the link resolver is required to produce, read off the document:
\* a link outside a code span becomes its anchor, everything else stays
RECURSIVE LinksResolved(_)
LinksResolved(segs) ==
    IF segs = <<>> THEN <<>>
    ELSE LET g == Head(segs)
         IN  (CASE g.kind = "raw" -> g.txt
                [] g.kind = "link" ->
                    LinkOpen
                        \o url_formatter("wiki.display", clean_url(g.target))
                        \o LinkMid
                        \o (IF g.display = <<>> THEN g.target ELSE g.display)
                        \o LinkClose
                [] g.kind = "code" -> CodeOpen \o LinkHtml(g.inner) \o CodeClose)
                \o LinksResolved(Tail(segs))

\* C8: wikilink leaves every [[target]] / [[target|Display]] that lies
\* anywhere inside a <code>...</code> span unchanged and replaces every one
\* outside code spans, once, left to right, with the anchor whose href is
\* url_formatter('wiki.display', url=clean_url(target)) and whose text is
\* Display, or target without one.
WikilinkAsSpecified == pc = "linked" => out = LinksResolved(text)

(***************************************************************************)
(* Processor (core.py 73-244).                                             *)
(***************************************************************************)
MaxScore == 11

\* index (0-based) of the first occurrence of sep in s at or after i, or -1
IndexFrom(s, sep, i) ==
    The({IF hits = {} THEN -1 ELSE CHOOSE k \in hits : \A o \in hits : k <= o
          : hits \in {{k \in i..(Len(s) - Len(sep)) : AtIs(s, k, sep)}}})

\* s.split(sep): all the pieces
RECURSIVE Split(_, _)
Split(s, sep) ==
    The({IF i < 0 THEN <<s>>
        ELSE <<Slice(s, 0, i)>> \o Split(Slice(s, i + Len(sep), Len(s)), sep)
          : i \in {IndexFrom(s, sep, 0)}})

\* s.split(sep, 1): one piece, or two when sep occurs
SplitOnce(s, sep) ==
    The({IF i < 0 THEN <<s>>
        ELSE <<Slice(s, 0, i), Slice(s, i + Len(sep), Len(s))>>
          : i \in {IndexFrom(s, sep, 0)}})

\* s.split(): the runs of characters that are not white space
RECURSIVE SplitWs(_)
SplitWs(s) ==
    The({The({IF t = <<>> THEN <<>>
        ELSE <<SubSeq(t, 1, n)>> \o SplitWs(Drop(t, n))
          : n \in {CHOOSE n \in 0..Len(t) :
            /\ \A k \in 1..n : t[k] \notin Whitespace
            /\ (n = Len(t) \/ t[n + 1] \in Whitespace)}})
          : t \in {LStrip(s)}})

\* sep.join(parts)
RECURSIVE Join(_, _)
Join(parts, sep) ==
    IF parts = <<>> THEN <<>>
    ELSE IF Len(parts) = 1 THEN parts[1]
    ELSE parts[1] \o sep \o Join(Tail(parts), sep)

Digit == {"0", "1", "2", "3", "4", "5", "6", "7", "8", "9"}

DigitVal(c) == CHOOSE d \in 0..9 : <<"0", "1", "2", "3", "4", "5", "6", "7", "8", "9">>[d + 1] = c

DigitChar(d) == <<"0", "1", "2", "3", "4", "5", "6", "7", "8", "9">>[d + 1]

\* int(tok) succeeds: a run of decimal digits (the model's tokens carry no
\* sign, underscore or surrounding white space)
IsInt(tok) == tok # <<>> /\ \A k \in 1..Len(tok) : tok[k] \in Digit

RECURSIVE ParseInt(_)
ParseInt(tok) ==
    IF tok = <<>> THEN 0
    ELSE 10 * ParseInt(SubSeq(tok, 1, Len(tok) - 1)) + DigitVal(tok[Len(tok)])

\* str(n) for an int n >= 0
RECURSIVE Str(_)
Str(n) == IF n < 10 THEN <<DigitChar(n)>> ELSE Str(n \div 10) \o <<DigitChar(n % 10)>>

(***************************************************************************)
(* str(a / b) for ints a >= 0, b > 0.  The quotient is the double nearest  *)
(* to a/b (ties to the even mantissa) and str prints the shortest decimal  *)
(* that reads back as that double, the nearest to it when there are        *)
(* several.  The numbers involved exceed the machine integers of the       *)
(* checker, so they are kept as sequences of decimal digits, lowest digit  *)
(* first.  The quotients of the model lie between 1e-4 and 1e16, where     *)
(* str uses no exponent.                                                   *)
(***************************************************************************)
BigDigits == Seq(0..9)

\* the digits of a small natural number
BigOf[n \in Nat] == IF n = 0 THEN <<>> ELSE <<n % 10>> \o BigOf[n \div 10]

\* a * m + c for small m and c
BigMul[a \in BigDigits, m \in Nat, c \in Nat] ==
    IF a = <<>> THEN BigOf[c]
    ELSE <<(a[1] * m + c) % 10>> \o BigMul[Tail(a), m, (a[1] * m + c) \div 10]

\* a * m^k for m = 2 or 5, nine factors at a time
BigTimes[a \in BigDigits, m \in Nat, k \in Nat] ==
    IF k > 9 THEN BigTimes[BigMul[a, m^9, 0], m, k - 9] ELSE BigMul[a, m^k, 0]

\* a + b + c for a carry c
BigAdd[a \in BigDigits, b \in BigDigits, c \in 0..1] ==
    IF a = <<>> THEN (IF c = 0 THEN b ELSE BigMul[b, 1, c])
    ELSE IF b = <<>> THEN (IF c = 0 THEN a ELSE BigMul[a, 1, c])
    ELSE <<(a[1] + b[1] + c) % 10>> \o BigAdd[Tail(a), Tail(b), (a[1] + b[1] + c) \div 10]

\* a without its leading zeros
BigTrim[a \in BigDigits] ==
    IF a # <<>> /\ a[Len(a)] = 0 THEN BigTrim[SubSeq(a, 1, Len(a) - 1)] ELSE a

\* a - b - c for a borrow c, where a >= b + c
BigSub[a \in BigDigits, b \in BigDigits, c \in 0..1] ==
    IF a = <<>> THEN <<>>
    ELSE LET y == (IF b = <<>> THEN 0 ELSE b[1]) + c
         IN  <<(a[1] + 10 - y) % 10>>
                \o BigSub[Tail(a), IF b = <<>> THEN <<>> ELSE Tail(b),
                          IF a[1] < y THEN 1 ELSE 0]

\* a < b
BigLess(a, b) ==
    \E x \in {BigTrim[a]} : \E y \in {BigTrim[b]} :
        \/ Len(x) < Len(y)
        \/ /\ Len(x) = Len(y)
           /\ \E i \in 1..Len(x) : x[i] < y[i] /\ \A j \in (i + 1)..Len(x) : x[j] = y[j]

\* the quotient and the remainder of the digits i..1 of a, with the
\* remainder rem of the digits above them, divided by a small q
BigQuot[a \in BigDigits, q \in Nat, i \in Nat, rem \in Nat] ==
    IF i = 0 THEN <<>>
    ELSE Append(BigQuot[a, q, i - 1, (rem * 10 + a[i]) % q], (rem * 10 + a[i]) \div q)

BigRem[a \in BigDigits, q \in Nat, i \in Nat, rem \in Nat] ==
    IF i = 0 THEN rem ELSE BigRem[a, q, i - 1, (rem * 10 + a[i]) % q]

\* the power s of two with b * 2^s <= a < b * 2^(s + 1), for a > 0
Log2[a \in Nat, b \in Nat] ==
    IF a < b THEN Log2[2 * a, b] - 1
    ELSE IF a >= 2 * b THEN Log2[a, 2 * b] + 1
    ELSE 0

\* the 53-bit mantissa of a/b: a * 2^e / b rounded to the nearest integer,
\* a tie to the even one
Mantissa(a, b, e) ==
    The({The({The({IF 2 * rem > b \/ (2 * rem = b /\ quot[1] % 2 = 1)
        THEN BigAdd[quot, <<1>>, 0]
        ELSE quot
          : rem \in {BigRem[x, b, Len(x), 0]}})
          : quot \in {BigTrim[BigQuot[x, b, Len(x), 0]]}})
          : x \in {BigTimes[BigOf[a], 2, e]}})

\* the decimal of n digits nearest to v when it lies within half of the
\* spacing of the doubles around v (inclusive for an even mantissa), <<>>
\* when none does; v and half are scaled by the same power of ten
Nearest(v, half, even, n) ==
    The({The({The({The({IF ok[1] /\ (~ ok[2] \/ BigLess(gap[1], gap[2])
                        \/ (gap[1] = gap[2] /\ lo[Len(v) - n + 1] % 2 = 0))
        THEN lo
        ELSE IF ok[2] THEN hi
        ELSE <<>>
          : ok \in {<<BigLess(gap[1], half) \/ (even /\ gap[1] = half),
           BigLess(gap[2], half) \/ (even /\ gap[2] = half)>>}})
          : gap \in {<<BigTrim[BigSub[v, lo, 0]], BigTrim[BigSub[hi, v, 0]]>>}})
          : hi \in {BigAdd[lo, [i \in 1..(Len(v) - n + 1) |-> IF i <= Len(v) - n THEN 0 ELSE 1], 0]}})
          : lo \in {[i \in 1..Len(v) |-> IF i <= Len(v) - n THEN 0 ELSE v[i]]}})

\* the shortest such decimal; seventeen digits tell any two doubles apart
Shortest(v, half, even) ==
    The({(CHOOSE c \in cs : c[2] # <<>> /\ \A d \in cs : d[2] # <<>> => c[1] <= d[1])[2]
          : cs \in {{<<n, Nearest(v, half, even, n)>> : n \in 1..(IF Len(v) < 17 THEN Len(v) ELSE 17)}}})

\* the digits d, highest first, as characters
RECURSIVE BigChars(_)
BigChars(d) ==
    IF d = <<>> THEN <<>> ELSE BigChars(Tail(d)) \o <<DigitChar(Head(d))>>

\* the number of zeros at the low end of d
RECURSIVE LowZeros(_)
LowZeros(d) == IF d # <<>> /\ Head(d) = 0 THEN 1 + LowZeros(Tail(d)) ELSE 0

\* d / 10^k printed with its point: at least one digit on each side and no
\* further zeros at either end
Decimal(d, k) ==
    The({The({BigChars(SubSeq(p, k + 1, Len(p))) \o <<".">>
            \o (IF LowZeros(frac) = k THEN <<"0">>
                ELSE BigChars(SubSeq(frac, LowZeros(frac) + 1, k)))
          : frac \in {SubSeq(p, 1, k)}})
          : p \in {IF Len(d) > k THEN d ELSE d \o [i \in 1..(k + 1 - Len(d)) |-> 0]}})

\* str(a / b): true division gives a float, printed by repr
FloatStr(a, b) ==
    IF a = 0 THEN <<"0", ".", "0">>
    ELSE The({The({The({The({The({Decimal(d, e + 1)
               : d \in {BigTrim[Shortest(v, half, m[1] % 2 = 0)]}})
               : half \in {BigTimes[<<1>>, 5, e + 1]}})
               : v \in {BigTrim[<<0>> \o BigTimes[m, 5, e]]}})
               : m \in {Mantissa(a, b, e)}})
          : e \in {52 - Log2[a, b]}})

\* the key pattern of the renderer's metadata header syntax: up to three
\* spaces, then a key of letters, digits, "_" and "-", then a colon
RECURSIVE LeadingSpaces(_)
LeadingSpaces(t) == IF t # <<>> /\ t[1] = " " THEN 1 + LeadingSpaces(Tail(t)) ELSE 0

MetaKeyChars(line) ==
    The({Drop(t, LeadingSpaces(t))
          : t \in {SplitOnce(line, <<":">>)[1]}})

KeyChar ==
    {Printable[i] : i \in 17..26} \cup Upper \cup {PrintableLow[i] : i \in 1..26}
        \cup {"_", "-"}

IsMetaLine(line) ==
    The({The({/\ Len(parts) = 2
        /\ LeadingSpaces(parts[1]) <= 3
        /\ key # <<>>
        /\ \A j \in 1..Len(key) : key[j] \in KeyChar
          : key \in {Drop(parts[1], LeadingSpaces(parts[1]))}})
          : parts \in {SplitOnce(line, <<":">>)}})

\* the renderer's header reader over the lines of the source: it stops at
\* the first blank line or the first line that is neither "key: value"
\* nor, after a key, a line indented by four spaces or more, which adds
\* to the values of that key; the result maps each lowercased key to the
\* list of its value lines. last holds the key read last, if any
RECURSIVE MetaLines(_, _, _)
MetaLines(lines, acc, last_) ==
    IF lines = <<>> \/ Strip(Head(lines)) = <<>> THEN acc
    ELSE IF IsMetaLine(Head(lines))
    THEN The({The({The({The({MetaLines(Tail(lines), next, <<key>>)
               : next \in {[k \in DOMAIN acc \cup {key} |->
                    IF k = key THEN Append(old, value) ELSE acc[k]]}})
               : old \in {IF key \in DOMAIN acc THEN acc[key] ELSE <<>>}})
               : value \in {Strip(SplitOnce(Head(lines), <<":">>)[2])}})
          : key \in {Lower(MetaKeyChars(Head(lines)))}})
    ELSE IF LeadingSpaces(Head(lines)) >= 4 /\ last_ # <<>>
    THEN The({MetaLines(Tail(lines), next, last_)
          : next \in {[acc EXCEPT ![last_[1]] = Append(@, Strip(Head(lines)))]}})
    ELSE acc

\* a value of self.md.Meta: the list of lines the renderer stores, or the
\* str that lines 158-162 store in its place
ListOf(lines) == [kind |-> "list", value |-> lines]
StrOf(chars) == [kind |-> "str", value |-> chars]

\* self.md.Meta after self.md.convert(self.pre): line ends are normalized
\* before the header is read
MdMeta(pre) ==
    The({[k \in DOMAIN m |-> ListOf(m[k])]
          : m \in {MetaLines(Split(Replace(Replace(pre, <<"\r", "\n">>, <<"\n">>),
                                 <<"\r">>, <<"\n">>), <<"\n">>), <<>>, <<>>)}})

\* the reserved keys
Total == <<"t", "o", "t", "a", "l">>
TimesRated == <<"t", "i", "m", "e", "s", "r", "a", "t", "e", "d">>
Rating == <<"r", "a", "t", "i", "n", "g">>

\* the first loop of process_meta (142-150), one line at a time
RateStep(st, line) ==
    The({The({IF st.err # "none" \/ key \notin {Total, TimesRated, Rating} THEN st
        ELSE IF Len(rate) < 2 THEN [st EXCEPT !.err = "IndexError"]
        ELSE IF ~ IsInt(rate[2]) THEN [st EXCEPT !.err = "ValueError"]
        ELSE IF key = Total THEN [st EXCEPT !.rate_Num = ParseInt(rate[2])]
        ELSE IF key = TimesRated THEN [st EXCEPT !.times_rated = ParseInt(rate[2]) + 1]
        ELSE [st EXCEPT !.rated = ParseInt(rate[2])]
          : rate \in {SplitWs(line)}})
          : key \in {SplitOnce(line, <<":">>)[1]}})

RECURSIVE RateLoop(_, _)
RateLoop(st, lines) ==
    IF lines = <<>> THEN st
    ELSE The({RateLoop(next, Tail(lines))
          : next \in {RateStep(st, Head(lines))}})

\* self.meta[key] = value on an OrderedDict kept as a sequence of pairs
DictSet(d, key, value) ==
    IF \E i \in 1..Len(d) : d[i][1] = key
    THEN [i \in 1..Len(d) |-> IF d[i][1] = key THEN <<key, value>> ELSE d[i]]
    ELSE Append(d, <<key, value>>)

\* '\n'.join(v) applied to a str instead of a list joins its characters
JoinChars(v) == Join([i \in 1..Len(v) |-> <<v[i]>>], <<"\n">>)

\* '\n'.join(v) for a value v of self.md.Meta (167)
JoinMeta(v) == IF v.kind = "str" THEN JoinChars(v.value) ELSE Join(v.value, <<"\n">>)

\* the second loop of process_meta (155-167), one line at a time: a
\* reserved key has its str stored in self.md.Meta (158-162), then the
\* value self.md.Meta now holds for the lowercased key is joined (167)
MetaStep(st, line, total, times_rated, rated) ==
    The({The({The({The({IF st.err # "none" THEN st
        ELSE IF lk \notin DOMAIN Meta THEN [st EXCEPT !.err = "KeyError"]
        ELSE [st EXCEPT !.mdMeta = Meta,
                        !.meta = DictSet(@, lk, JoinMeta(Meta[lk]))]
          : Meta \in {IF assigned = <<>> THEN st.mdMeta
         ELSE [k \in DOMAIN st.mdMeta \cup {lk} |->
                    IF k = lk THEN StrOf(assigned[1]) ELSE st.mdMeta[k]]}})
          : assigned \in {IF key = Total THEN <<Str(total)>>
         ELSE IF key = TimesRated THEN <<Str(times_rated)>>
         ELSE IF key = Rating THEN <<rated>>
         ELSE <<>>}})
          : lk \in {Lower(key)}})
          : key \in {SplitOnce(line, <<":">>)[1]}})

RECURSIVE MetaLoop(_, _, _, _, _)
MetaLoop(st, lines, total, times_rated, rated) ==
    IF lines = <<>> THEN st
    ELSE The({MetaLoop(next, Tail(lines), total, times_rated, rated)
          : next \in {MetaStep(st, Head(lines), total, times_rated, rated)}})

\* process_meta (127-167): the error raised, or the ordered metadata
process_meta(meta_raw, mdMeta) ==
    The({The({The({IF r.err # "none" THEN [err |-> r.err, meta |-> <<>>]
        ELSE IF r.times_rated = 0 THEN [err |-> "ZeroDivisionError", meta |-> <<>>]
        ELSE The({The({[err |-> m.err, meta |-> m.meta]
                   : m \in {MetaLoop([err |-> "none", meta |-> <<>>, mdMeta |-> mdMeta],
                           metaField, total, r.times_rated, rated)}})
              : rated \in {FloatStr(total, r.times_rated)}})
          : total \in {r.rated + r.rate_Num}})
          : r \in {RateLoop([err |-> "none", rate_Num |-> 0, times_rated |-> 1, rated |-> 0],
                  metaField)}})
          : metaField \in {Split(meta_raw, <<"\n">>)}})

\* process (230-244) as far as the body and the metadata go: the html of
\* the external renderer is not modelled
process(input) ==
    The({The({IF Len(parts) < 2 THEN [err |-> "ValueError", body |-> <<>>, meta |-> <<>>]
        ELSE The({[err |-> m.err,
                 body |-> IF m.err = "none" THEN parts[2] ELSE <<>>,
                 meta |-> m.meta]
              : m \in {process_meta(parts[1], MdMeta(pre))}})
          : parts \in {SplitOnce(pre, <<"\n", "\n">>)}})
          : pre \in {input}})

\* the text Page.save writes to the content file (275-280)
RECURSIVE MetaText(_)
MetaText(meta) ==
    IF meta = <<>> THEN <<>>
    ELSE Head(meta)[1] \o <<":", " ">> \o Head(meta)[2] \o <<"\n">> \o MetaText(Tail(meta))

SavedText(meta, body) ==
    MetaText(meta) \o <<"\n">> \o Replace(body, <<"\r", "\n">>, <<"\n">>)

\* the keys of an ordered mapping
Keys(d) == {d[i][1] : i \in 1..Len(d)}

\* d[key] of an ordered mapping; KeyError when the key is absent
KeyError == [err |-> "KeyError"]

DictGet(d, key) ==
    IF key \in Keys(d)
    THEN d[CHOOSE i \in 1..Len(d) : d[i][1] = key][2]
    ELSE KeyError

(***************************************************************************)
(* os.path (POSIX) and the filesystem.  A path is a character sequence.    *)
(* A file or directory is known by its absolute normalized path; the       *)
(* process runs in the directory Cwd.                                      *)
(***************************************************************************)
Cwd == <<"/", "s">>

\* os.path.join(a, b)
PathJoin(a, b) ==
    IF b # <<>> /\ b[1] = "/" THEN b
    ELSE IF a = <<>> \/ a[Len(a)] = "/" THEN a \o b
    ELSE a \o <<"/">> \o b

\* the component loop of os.path.normpath
RECURSIVE NormComps(_, _, _)
NormComps(comps, initial_slashes, new_comps) ==
    IF comps = <<>> THEN new_comps
    ELSE The({The({The({NormComps(Tail(comps), initial_slashes, next)
               : next \in {IF comp = <<>> \/ comp = <<".">> THEN new_comps
              ELSE IF \/ comp # <<".", ".">>
                      \/ (~ initial_slashes /\ n = 0)
                      \/ (n > 0 /\ new_comps[n] = <<".", ".">>)
                   THEN Append(new_comps, comp)
                   ELSE IF n > 0 THEN SubSeq(new_comps, 1, n - 1)
                        ELSE new_comps}})
               : n \in {Len(new_comps)}})
          : comp \in {Head(comps)}})

\* os.path.normpath(path); the model has no path that starts with "//"
normpath(path) ==
    The({The({The({IF path = <<>> \/ full = <<>> THEN <<".">> ELSE full
          : full \in {IF initial_slashes THEN <<"/">> \o joined ELSE joined}})
          : joined \in {Join(NormComps(Split(path, <<"/">>), initial_slashes, <<>>), <<"/">>)}})
          : initial_slashes \in {path # <<>> /\ path[1] = "/"}})

\* os.path.commonprefix((a, b)): character by character
RECURSIVE commonprefix(_, _)
commonprefix(a, b) ==
    IF a = <<>> \/ b = <<>> \/ a[1] # b[1] THEN <<>>
    ELSE <<a[1]>> \o commonprefix(Tail(a), Tail(b))

\* the longest prefix of p that ends with "/", p.rfind('/') + 1 characters
RECURSIVE HeadLen(_)
HeadLen(p) == IF p = <<>> \/ p[Len(p)] = "/" THEN Len(p) ELSE HeadLen(SubSeq(p, 1, Len(p) - 1))

RECURSIVE RStripSlash(_)
RStripSlash(p) ==
    IF p # <<>> /\ p[Len(p)] = "/" THEN RStripSlash(SubSeq(p, 1, Len(p) - 1)) ELSE p

\* os.path.dirname(p)
dirname(p) ==
    The({IF head # <<>> /\ \E k \in 1..Len(head) : head[k] # "/"
        THEN RStripSlash(head) ELSE head
          : head \in {SubSeq(p, 1, HeadLen(p))}})

\* os.path.abspath(path): the identity of the file the path names
Abs(path) == The({normpath(joined)
      : joined \in {PathJoin(Cwd, path)}})

\* the directories above an absolute normalized path, the path included
RECURSIVE Ancestors(_)
Ancestors(p) ==
    IF p = <<"/">> \/ p = <<>> THEN {<<"/">>}
    ELSE The({{p} \cup Ancestors(IF up = p THEN <<"/">> ELSE up)
          : up \in {dirname(p)}})

\* the path is contained in the directory: equal to it or below it
Inside(p, dir) == dir \in Ancestors(p)

(***************************************************************************)
(* Wiki.move (core.py 423-442)                                             *)
(***************************************************************************)
DotMd == <<".", "m", "d">>

\* the check of lines 428-437 as written: the character-wise common
\* prefix of root and target is at least as long as root
PrefixCheck(root, target) ==
    Len(commonprefix(normpath(root), normpath(target))) >= Len(normpath(root))

\* the lookup of the directories path goes through, one component after
\* the other: the error of the first that is not a directory
Lookup(fs, path) ==
    The({The({The({IF path = <<>> THEN "FileNotFoundError"
        ELSE IF bad = {} THEN "none"
        ELSE IF Abs(prefix[CHOOSE k \in bad : \A o \in bad : k <= o]) \in DOMAIN fs.files
        THEN "NotADirectoryError"
        ELSE "FileNotFoundError"
          : bad \in {{k \in 1..Len(prefix) : prefix[k] # <<>> /\ Abs(prefix[k]) \notin fs.dirs}}})
          : prefix \in {[k \in 1..(Len(comps) - 1) |-> Join(SubSeq(comps, 1, k), <<"/">>)]}})
          : comps \in {Split(path, <<"/">>)}})

\* the directories a lookup of path walks through all exist
Walkable(fs, path) == Lookup(fs, path) = "none"

\* os.path.exists(path)
Exists(fs, path) ==
    /\ path # <<>>
    /\ Walkable(fs, path)
    /\ Abs(path) \in fs.dirs \cup DOMAIN fs.files

\* os.path.split(p)[1]
Basename(p) == Drop(p, HeadLen(p))

\* the path without its trailing slashes, which the lookup of its last
\* component leaves aside
Bare(path) == IF RStripSlash(path) = <<>> THEN path ELSE RStripSlash(path)

\* os.mkdir(name)
mkdir(fs, name) ==
    The({The({IF walk # "none" THEN [err |-> walk, dirs |-> fs.dirs]
        ELSE IF Abs(n) \in fs.dirs \cup DOMAIN fs.files
        THEN [err |-> "FileExistsError", dirs |-> fs.dirs]
        ELSE [err |-> "none", dirs |-> fs.dirs \cup {Abs(n)}]
          : walk \in {Lookup(fs, n)}})
          : n \in {Bare(name)}})

\* os.makedirs(name): the missing parents first, then the directory
RECURSIVE makedirs(_, _)
makedirs(fs, name) ==
    The({The({The({The({The({IF up.err \notin {"none", "FileExistsError"} THEN up
        ELSE IF parents /\ tail = <<".">> THEN [err |-> "none", dirs |-> up.dirs]
        ELSE mkdir([files |-> fs.files, dirs |-> up.dirs], name)
          : up \in {IF parents THEN makedirs(fs, head) ELSE [err |-> "none", dirs |-> fs.dirs]}})
          : parents \in {head # <<>> /\ tail # <<>> /\ ~ Exists(fs, head)}})
          : tail \in {Basename(n)}})
          : head \in {dirname(n)}})
          : n \in {IF Basename(name) = <<>> THEN dirname(name) ELSE name}})

\* the last component of the path is ".", ".." or the root
Dots(n) == Basename(n) \in {<<".">>, <<".", ".">>} \/ (n # <<>> /\ RStripSlash(n) = <<>>)

\* the file or directory p is d or lies below the directory d
Under(p, d) == p = d \/ StartsWith(p, d \o <<"/">>)

\* os.rename(source, target) of a file or a directory with all it holds.
\* Refused with a plain OSError: a last component "." or ".." (EBUSY), a
\* target below the source (EINVAL), a target above the source or a
\* target directory that holds something (ENOTEMPTY)
rename(fs, source, target) ==
    The({The({The({The({The({IF walk[1] # "none" THEN [same EXCEPT !.err = walk[1]]
        ELSE IF walk[2] # "none" THEN [same EXCEPT !.err = walk[2]]
        ELSE IF Dots(n[1]) \/ Dots(n[2]) THEN [same EXCEPT !.err = "OSError"]
        ELSE IF abs[1] \notin fs.dirs \cup DOMAIN fs.files
        THEN [same EXCEPT !.err = "FileNotFoundError"]
        ELSE IF abs[1] \in DOMAIN fs.files /\ (n[1] # source \/ n[2] # target)
        THEN [same EXCEPT !.err = "NotADirectoryError"]
        ELSE IF abs[1] = abs[2] THEN same
        ELSE IF Under(abs[2], abs[1]) \/ Under(abs[1], abs[2])
        THEN [same EXCEPT !.err = "OSError"]
        ELSE IF abs[1] \in fs.dirs /\ abs[2] \in DOMAIN fs.files
        THEN [same EXCEPT !.err = "NotADirectoryError"]
        ELSE IF abs[1] \in DOMAIN fs.files /\ abs[2] \in fs.dirs
        THEN [same EXCEPT !.err = "IsADirectoryError"]
        ELSE IF \E p \in fs.dirs \cup DOMAIN fs.files : p # abs[2] /\ Under(p, abs[2])
        THEN [same EXCEPT !.err = "OSError"]
        ELSE [err |-> "none",
              dirs |-> {new[d] : d \in fs.dirs},
              files |-> [f \in {new[g] : g \in DOMAIN fs.files} |->
                            IF \E g \in DOMAIN fs.files : Under(g, abs[1]) /\ new[g] = f
                            THEN fs.files[CHOOSE g \in DOMAIN fs.files :
                                            Under(g, abs[1]) /\ new[g] = f]
                            ELSE fs.files[f]]]
          : same \in {[err |-> "none", files |-> fs.files, dirs |-> fs.dirs]}})
          : new \in {[p \in fs.dirs \cup DOMAIN fs.files |->
            IF Under(p, abs[1]) THEN abs[2] \o Drop(p, Len(abs[1])) ELSE p]}})
          : abs \in {<<Abs(n[1]), Abs(n[2])>>}})
          : walk \in {<<Lookup(fs, n[1]), Lookup(fs, n[2])>>}})
          : n \in {<<Bare(source), Bare(target)>>}})

\* the outcome of move(url, newurl) on the filesystem fs = [files, dirs]:
\* the error raised ("none" on success) and the filesystem left behind
move(root, fs, url, newurl) ==
    The({The({The({IF ~ PrefixCheck(root, target)
        THEN [err |-> "RuntimeError", files |-> fs.files, dirs |-> fs.dirs]
        ELSE The({IF made.err # "none"
             THEN [err |-> made.err, files |-> fs.files, dirs |-> made.dirs]
             ELSE The({[err |-> moved.err, files |-> moved.files, dirs |-> moved.dirs]
                   : moved \in {rename([files |-> fs.files, dirs |-> made.dirs], source, target)}})
              : made \in {IF ~ Exists(fs, folder) THEN makedirs(fs, folder)
                  ELSE [err |-> "none", dirs |-> fs.dirs]}})
          : folder \in {dirname(target)}})
          : target \in {PathJoin(root, newurl) \o DotMd}})
          : source \in {PathJoin(root, url) \o DotMd}})

(***************************************************************************)
(* Specification SpecMove: a wiki over a content root that holds two       *)
(* pages; callers move pages about.                                        *)
(***************************************************************************)
Roots == { <<"w", "i", "k", "i">>, <<"/", "s", "/", "w", "i", "k", "i">>, <<".">> }

MoveUrls == { <<"a">>, <<"b">> }

\* the number of moves a behaviour makes
MaxMoves == 3

MoveTargets ==
    MoveUrls \cup
    { <<"s", "u", "b", "/", "c">>,
      <<".", ".", "/", "w", "i", "k", "i", "2", "/", "x">>,
      <<".", ".", "/", ".", ".", "/", "e", "t", "c", "/", "p">>,
      <<".", ".", "/", "x">>,
      <<"a", ".", "m", "d", "/", "s", "u", "b", "/", "x">> }

NoFn == /\ pc = "idle"
        /\ text = <<>>
        /\ out = <<>>
        /\ out2 = <<>>

\* Wiki.path(url)
WikiPath(root, url) == PathJoin(root, url \o DotMd)

InitMove ==
    /\ NoFn
    /\ \E r \in Roots :
        /\ inst = [root |-> r]
        /\ files = [f \in {Abs(WikiPath(r, <<"a">>)), Abs(WikiPath(r, <<"b">>))} |->
                        IF f = Abs(WikiPath(r, <<"a">>)) THEN "A" ELSE "B"]
        /\ dirs = Ancestors(Abs(r))
    /\ last = [op |-> "none", moves |-> 0]
    /\ clock = 0

Move(url, newurl) ==
    \E r \in {move(inst.root, [files |-> files, dirs |-> dirs], url, newurl)} :
        /\ last.moves < MaxMoves
        /\ files' = r.files
        /\ dirs' = r.dirs
        /\ last' = [op |-> "move", url |-> url, newurl |-> newurl, err |-> r.err,
                    mutated |-> (r.files # files \/ r.dirs # dirs),
                    moves |-> last.moves + 1]
        /\ UNCHANGED <<inst, clock, fnVars>>

NextMove == \E url \in MoveUrls, newurl \in MoveTargets : Move(url, newurl)

SpecMove == InitMove /\ [][NextMove]_vars

\* C1: a move whose normalized target {root}/{newUrl}.md does not lie
\* inside the content root fails and changes nothing on the filesystem, so
\* no content file ever exists outside the content root.
MoveStaysInRoot ==
    /\ \A f \in DOMAIN files : Inside(f, Abs(inst.root))
    /\ (last.op = "move"
            /\ ~ Inside(Abs(PathJoin(inst.root, last.newurl) \o DotMd), Abs(inst.root)))
        => (last.err # "none" /\ ~ last.mutated)

(***************************************************************************)
(* History (core.py 350-390) and Page (core.py 247-286).                   *)
(*                                                                         *)
(* The content of a file is either text, [kind |-> "text", chars], or a    *)
(* JSON document, [kind |-> "json", pairs]: the members as written, in     *)
(* order, each <<key, entry>>.  A history key is a clock reading t; its    *)
(* JSON form is the string of t.  In memory a key carries its Python type: *)
(* float when History.save made it, str when json.load read it.  No text   *)
(* of the model is a valid JSON document.                                  *)
(***************************************************************************)
MaxTime == 2
MaxSaves == 2

TextFile(chars) == [kind |-> "text", chars |-> chars, pairs |-> <<>>]
JsonFile(pairs) == [kind |-> "json", chars |-> <<>>, pairs |-> pairs]

FloatKey(t) == [typ |-> "float", t |-> t]
StrKey(t) == [typ |-> "str", t |-> t]

\* json.load: the keys are str; a key met again keeps its place and takes
\* the later value
RECURSIVE JsonLoad(_, _)
JsonLoad(pairs, acc) ==
    IF pairs = <<>> THEN acc
    ELSE JsonLoad(Tail(pairs), DictSet(acc, StrKey(Head(pairs)[1]), Head(pairs)[2]))

\* str(t) of the float t, which is also how json.dump writes it as a key
KeyText(t) == Str(t) \o <<".", "0">>

\* json.dump: every member in the order of the dict, its key as a string
JsonDump(entries) == [i \in 1..Len(entries) |-> <<entries[i][1].t, entries[i][2]>>]

\* a str as json.dump writes it
RECURSIVE JsonEscape(_)
JsonEscape(str) ==
    IF str = <<>> THEN <<>>
    ELSE (CASE str[1] = "\"" -> <<"\\", "\"">>
            [] str[1] = "\\" -> <<"\\", "\\">>
            [] str[1] = "\n" -> <<"\\", "n">>
            [] str[1] = "\r" -> <<"\\", "r">>
            [] str[1] = "\t" -> <<"\\", "t">>
            [] OTHER -> <<str[1]>>) \o JsonEscape(Tail(str))

JsonString(str) == <<"\"">> \o JsonEscape(str) \o <<"\"">>

\* strftime('%b %d, %Y at %I:%M:%S %p') of the clock reading t: the clock
\* of the model counts the seconds after the epoch, read in UTC
DateText(t) ==
    <<"J", "a", "n", " ", "0", "1", ",", " ", "1", "9", "7", "0", " ", "a", "t", " ", "1", "2", ":", "0", "0", ":">>
        \o <<DigitChar(t \div 10), DigitChar(t % 10)>> \o <<" ", "A", "M">>

\* a line end and n levels of indent=4
Indent(n) == <<"\n">> \o [i \in 1..(4 * n) |-> " "]

\* one member of the history as json.dump(entries, indent=4) writes it
JsonMember(pair) ==
    Indent(1) \o JsonString(KeyText(pair[1])) \o <<":", " ", "{">>
        \o Indent(2) \o JsonString(<<"u", "s", "e", "r">>) \o <<":", " ">>
        \o JsonString(pair[2].user) \o <<",">>
        \o Indent(2) \o JsonString(<<"f", "o", "r", "m", "a", "t", "t", "e", "d", "-", "d", "a", "t", "e">>)
        \o <<":", " ">> \o JsonString(DateText(pair[2].date)) \o <<",">>
        \o Indent(2) \o JsonString(<<"v", "e", "r", "s", "i", "o", "n">>) \o <<":", " ">>
        \o JsonString(pair[2].version)
        \o Indent(1) \o <<"}">>

RECURSIVE JsonMembers(_)
JsonMembers(pairs) ==
    IF Len(pairs) = 1 THEN JsonMember(pairs[1])
    ELSE JsonMember(pairs[1]) \o <<",">> \o JsonMembers(Tail(pairs))

\* the text of the history file: "{}\n" as History.create writes it, else
\* the document json.dump writes, in which the line ends inside strings
\* are escaped
JsonText(pairs) ==
    IF pairs = <<>> THEN <<"{", "}", "\n">>
    ELSE <<"{">> \o JsonMembers(pairs) \o <<"\n", "}">>

\* f.read() of a file opened in text mode: "\r\n" and "\r" are read as "\n"
ReadText(content) ==
    IF content.kind = "json" THEN JsonText(content.pairs)
    ELSE Replace(Replace(content.chars, <<"\r", "\n">>, <<"\n">>), <<"\r">>, <<"\n">>)

\* sorted(self.entries, reverse=True) on the str keys of a loaded history
RECURSIVE SortDesc(_)
SortDesc(ts) ==
    IF ts = {} THEN <<>>
    ELSE The({<<StrKey(m)>> \o SortDesc(ts \ {m})
          : m \in {CHOOSE m \in ts : \A o \in ts : ~ StrLess(KeyText(m), KeyText(o))}})

\* the file at path holds content
WriteFile(files_, path, content) ==
    The({[f \in DOMAIN files_ \cup {abs} |-> IF f = abs THEN content ELSE files_[f]]
          : abs \in {Abs(path)}})

RemoveFile(files_, path) ==
    The({[f \in DOMAIN files_ \ {abs} |-> files_[f]]
          : abs \in {Abs(path)}})

\* open(path, 'w'): the error, if any; a name that ends in a slash is
\* refused as a directory whatever it names
OpenForWrite(fs, path) ==
    The({The({IF walk # "none" THEN walk
        ELSE IF Abs(n) \in fs.dirs \/ n # path THEN "IsADirectoryError"
        ELSE "none"
          : walk \in {Lookup(fs, n)}})
          : n \in {Bare(path)}})

\* open(path, 'r'): the error, if any
OpenForRead(fs, path) ==
    The({The({The({IF walk # "none" THEN walk
        ELSE IF abs \in fs.dirs THEN "IsADirectoryError"
        ELSE IF abs \notin DOMAIN fs.files THEN "FileNotFoundError"
        ELSE IF n # path THEN "NotADirectoryError"
        ELSE "none"
          : abs \in {Abs(n)}})
          : walk \in {Lookup(fs, n)}})
          : n \in {Bare(path)}})

\* History.__init__ (354-365) with History.create (367-373)
HistoryInit(fs, path) ==
    The({The({The({The({IF werr # "none"
        THEN [err |-> werr, files |-> fs.files, entries |-> <<>>, entryKeys |-> <<>>]
        ELSE IF rerr # "none"
        THEN [err |-> rerr, files |-> created, entries |-> <<>>, entryKeys |-> <<>>]
        ELSE IF created[Abs(path)].kind # "json"
        THEN [err |-> "JSONDecodeError", files |-> created, entries |-> <<>>,
              entryKeys |-> <<>>]
        ELSE The({[err |-> "none", files |-> created, entries |-> entries,
                 entryKeys |-> SortDesc({entries[i][1].t : i \in 1..Len(entries)})]
              : entries \in {JsonLoad(created[Abs(path)].pairs, <<>>)}})
          : rerr \in {OpenForRead([files |-> created, dirs |-> fs.dirs], path)}})
          : created \in {IF exists THEN fs.files ELSE WriteFile(fs.files, path, JsonFile(<<>>))}})
          : werr \in {IF exists THEN "none" ELSE OpenForWrite(fs, path)}})
          : exists \in {Exists(fs, path)}})

Json == <<".", "j", "s", "o", "n">>

\* path.replace("\\" + url + ".md", "/history/" + url + ".json") (253)
\* A path built by os.path.join with "/" holds no "\\" before the url, so
\* the replacement leaves it as it is: the history file is the content file
HistoryPath(path, url) ==
    Replace(path, <<"\\">> \o url \o DotMd,
            <<"/", "h", "i", "s", "t", "o", "r", "y", "/">> \o url \o Json)

\* a Page object; hasBody tells whether the attribute body was ever set.
\* For the checks only, loaded is the number of entries its history held
\* when it was constructed and saved lists the key and version of every
\* entry its History.save has recorded since
NoPage ==
    [live |-> FALSE, path |-> <<>>, url |-> <<>>, hpath |-> <<>>, meta |-> <<>>,
     hasBody |-> FALSE, body |-> <<>>, content |-> <<>>, entries |-> <<>>,
     entryKeys |-> <<>>, loaded |-> 0, saved |-> <<>>]

\* Page.load and Page.render (262-268) on the page
LoadRender(fs, page) ==
    The({IF rerr # "none" THEN [err |-> rerr, page |-> page]
        ELSE The({The({IF r.err # "none"
                THEN [err |-> r.err, page |-> [page EXCEPT !.content = content]]
                ELSE [err |-> "none",
                      page |-> [page EXCEPT !.content = content, !.hasBody = TRUE,
                                            !.body = r.body, !.meta = r.meta]]
                   : r \in {process(content)}})
              : content \in {ReadText(fs.files[Abs(page.path)])}})
          : rerr \in {OpenForRead(fs, page.path)}})

\* Page.__init__ (248-257)
PageInit(fs, path, url, new) ==
    The({The({The({IF h.err # "none" THEN [err |-> h.err, files |-> h.files, page |-> NoPage]
        ELSE IF new THEN [err |-> "none", files |-> h.files, page |-> page]
        ELSE The({IF lr.err # "none"
                THEN [err |-> lr.err, files |-> h.files, page |-> NoPage]
                ELSE [err |-> "none", files |-> h.files, page |-> lr.page]
              : lr \in {LoadRender([files |-> h.files, dirs |-> fs.dirs], page)}})
          : page \in {[NoPage EXCEPT !.live = TRUE, !.path = path, !.url = url,
                        !.hpath = history_path, !.entries = h.entries,
                        !.entryKeys = h.entryKeys, !.loaded = Len(h.entries)]}})
          : h \in {HistoryInit(fs, history_path)}})
          : history_path \in {HistoryPath(path, url)}})

\* History.save (375-390) on the page's history: the entry is built
\* first, with the date of the clock reading date (385), and stored under
\* the key of the clock reading t taken after it (383)
HistorySave(fs, page, user, version, date, t) ==
    The({The({IF werr # "none" THEN [err |-> werr, files |-> fs.files, page |-> page]
        ELSE [err |-> "none",
              files |-> WriteFile(fs.files, page.hpath, JsonFile(JsonDump(entries))),
              page |-> [page EXCEPT !.entries = entries,
                                    !.saved = Append(@, <<FloatKey(t), version>>)]]
          : entries \in {DictSet(page.entries, FloatKey(t),
                 [user |-> user, date |-> date, version |-> version])}})
          : werr \in {OpenForWrite(fs, page.hpath)}})

\* Page.save (270-286)
PageSave(fs, page, user, update, date, t) ==
    The({The({The({The({IF made.err # "none"
        THEN [err |-> made.err, files |-> fs.files, dirs |-> made.dirs, page |-> page]
        ELSE IF werr # "none"
        THEN [err |-> werr, files |-> fs.files, dirs |-> made.dirs, page |-> page]
        ELSE IF ~ page.hasBody
        THEN [err |-> "AttributeError", files |-> written, dirs |-> made.dirs,
              page |-> page]
        ELSE The({IF h.err # "none" \/ ~ update
                THEN [err |-> h.err, files |-> h.files, dirs |-> made.dirs,
                      page |-> h.page]
                ELSE The({[err |-> lr.err, files |-> h.files, dirs |-> made.dirs,
                         page |-> lr.page]
                      : lr \in {LoadRender([files |-> h.files, dirs |-> made.dirs], h.page)}})
              : h \in {HistorySave([files |-> written, dirs |-> made.dirs], page, user,
                              Replace(page.body, <<"\r", "\n">>, <<"\n">>), date, t)}})
          : written \in {WriteFile(fs.files, page.path,
                   TextFile(IF page.hasBody THEN SavedText(page.meta, page.body)
                            ELSE MetaText(page.meta) \o <<"\n">>))}})
          : werr \in {OpenForWrite([files |-> fs.files, dirs |-> made.dirs], page.path)}})
          : made \in {IF ~ Exists(fs, folder) THEN makedirs(fs, folder)
         ELSE [err |-> "none", dirs |-> fs.dirs]}})
          : folder \in {dirname(page.path)}})

(***************************************************************************)
(* Wiki (core.py 393-493)                                                  *)
(***************************************************************************)
\* Wiki.exists(url)
WikiExists(fs, root, url) == Exists(fs, WikiPath(root, url))

\* Wiki.get(url): ret tells whether a page was returned (else None)
WikiGet(fs, root, url) ==
    The({IF Exists(fs, path)
        THEN The({[err |-> r.err, ret |-> r.err = "none", files |-> r.files,
                 page |-> r.page]
              : r \in {PageInit(fs, path, url, FALSE)}})
        ELSE [err |-> "none", ret |-> FALSE, files |-> fs.files, page |-> NoPage]
          : path \in {WikiPath(root, url)}})

\* Wiki.get_bare(url): ret tells whether a page was returned (else False)
WikiGetBare(fs, root, url) ==
    The({IF Exists(fs, path)
        THEN [err |-> "none", ret |-> FALSE, files |-> fs.files, page |-> NoPage]
        ELSE The({[err |-> r.err, ret |-> r.err = "none", files |-> r.files,
                 page |-> r.page]
              : r \in {PageInit(fs, path, url, TRUE)}})
          : path \in {WikiPath(root, url)}})

\* os.remove(path)
remove(fs, path) ==
    The({IF walk # "none" THEN [err |-> walk, files |-> fs.files]
        ELSE IF Abs(path) \in DOMAIN fs.files
        THEN [err |-> "none", files |-> RemoveFile(fs.files, path)]
        ELSE IF Abs(path) \in fs.dirs THEN [err |-> "IsADirectoryError", files |-> fs.files]
        ELSE [err |-> "FileNotFoundError", files |-> fs.files]
          : walk \in {Lookup(fs, path)}})

\* Wiki.delete(url) (444-451)
WikiDelete(fs, root, url) ==
    The({The({IF page.err # "none" THEN [err |-> page.err, ret |-> FALSE, files |-> page.files]
        ELSE IF ~ Exists([files |-> page.files, dirs |-> fs.dirs], path)
        THEN [err |-> "none", ret |-> FALSE, files |-> page.files]
        ELSE The({IF r1.err # "none"
                THEN [err |-> r1.err, ret |-> FALSE, files |-> r1.files]
                ELSE The({[err |-> r2.err, ret |-> r2.err = "none", files |-> r2.files]
                      : r2 \in {remove([files |-> r1.files, dirs |-> fs.dirs], path)}})
              : r1 \in {remove([files |-> page.files, dirs |-> fs.dirs], page.page.hpath)}})
          : page \in {WikiGet(fs, root, url)}})
          : path \in {WikiPath(root, url)}})

\* the sequences that list every member of S once
Perms(S) ==
    {q \in [1..Cardinality(S) -> S] : \A i, j \in 1..Cardinality(S) : i # j => q[i] # q[j]}

\* the files os.walk(top) yields, top down: the files of a directory in
\* the order of its listing, then its subdirectories one after the
\* other; the order of a listing is the file system's, so every order
\* can occur
RECURSIVE Walks(_, _), WalkDirs(_, _)
Walks(fs, top) ==
    UNION {{listing \o below : below \in WalkDirs(fs, subdirs)} :
                listing \in Perms({f \in DOMAIN fs.files : dirname(f) = top}),
                subdirs \in Perms({d \in fs.dirs : d # top /\ dirname(d) = top})}

WalkDirs(fs, subdirs) ==
    IF subdirs = <<>> THEN {<<>>}
    ELSE {first \o rest : first \in Walks(fs, Head(subdirs)),
                          rest \in WalkDirs(fs, Tail(subdirs))}

Title == <<"t", "i", "t", "l", "e">>
Tags == <<"t", "a", "g", "s">>

\* getattr(page, key) for the properties title (305-310) and tags
\* (316-321): the metadata value, else, on KeyError, the url or the empty
\* string
GetAttr(page, key) ==
    IF key \in Keys(page.meta) THEN DictGet(page.meta, key)
    ELSE IF key = Title THEN page.url
    ELSE <<>>

\* one pass of the loop of index (466-471) for the file at path
IndexStep(st, dirs_, root, path) ==
    LET cur_dir_url == Drop(dirname(path), Len(root) + 1)
        cur_file == Basename(path)
        url == clean_url(PathJoin(cur_dir_url, SubSeq(cur_file, 1, Len(cur_file) - 3)))
    IN  IF st.err # "none" \/ ~ EndsWith(cur_file, DotMd) THEN st
        ELSE The({[err |-> r.err, files |-> r.files,
                 pages |-> IF r.err = "none" THEN Append(st.pages, r.page)
                           ELSE st.pages]
              : r \in {PageInit([files |-> st.files, dirs |-> dirs_], path, url, FALSE)}})

RECURSIVE IndexLoop(_, _, _, _)
IndexLoop(st, dirs_, root, walk) ==
    IF walk = <<>> THEN st
    ELSE The({IndexLoop(next, dirs_, root, Tail(walk))
          : next \in {IndexStep(st, dirs_, root, Head(walk))}})

\* sorted(pages, key=lambda x: x.title.lower()): stable
RECURSIVE SortedByTitle(_)
SortedByTitle(pages) ==
    IF pages = <<>> THEN <<>>
    ELSE The({The({The({SubSeq(rest, 1, k) \o <<page>> \o SubSeq(rest, k + 1, Len(rest))
               : k \in {Cardinality({i \in 1..Len(rest) :
                ~ StrLess(Lower(GetAttr(page, Title)), Lower(GetAttr(rest[i], Title)))})}})
               : page \in {pages[Len(pages)]}})
          : rest \in {SortedByTitle(SubSeq(pages, 1, Len(pages) - 1))}})

\* Wiki.index() (453-473) when os.walk yields the files in the order walk
WikiIndex(fs, root, walk) ==
    The({[err |-> r.err, files |-> r.files,
         pages |-> IF r.err = "none" THEN SortedByTitle(r.pages) ELSE <<>>]
          : r \in {IndexLoop([err |-> "none", files |-> fs.files, pages |-> <<>>], fs.dirs,
                   Abs(root), walk)}})

\* a Python value that is either None or a list
None == [none |-> TRUE, items |-> <<>>]
List(items) == [none |-> FALSE, items |-> items]

\* one pass of the loop of index_by (490-492): pre.append(page) changes
\* the list pre and returns None, and None is what is stored; a value met
\* before has None stored, which has no append
IndexByStep(st, page, key) ==
    The({The({IF st.err # "none" THEN st
        ELSE IF pre.none THEN [st EXCEPT !.err = "AttributeError"]
        ELSE [st EXCEPT !.pages =
                [v \in DOMAIN st.pages \cup {value} |->
                    IF v = value THEN None ELSE st.pages[v]]]
          : pre \in {IF value \in DOMAIN st.pages THEN st.pages[value] ELSE List(<<>>)}})
          : value \in {GetAttr(page, key)}})

RECURSIVE IndexByLoop(_, _, _)
IndexByLoop(st, index, key) ==
    IF index = <<>> THEN st
    ELSE The({IndexByLoop(next, Tail(index), key)
          : next \in {IndexByStep(st, Head(index), key)}})

\* Wiki.index_by(key) (475-493): the error raised or the mapping returned
index_by(fs, root, key, walk) ==
    The({IF index.err # "none"
        THEN [err |-> index.err, files |-> index.files, pages |-> <<>>]
        ELSE The({[err |-> r.err, files |-> index.files, pages |-> r.pages]
              : r \in {IndexByLoop([err |-> "none", pages |-> <<>>], index.pages, key)}})
          : index \in {WikiIndex(fs, root, walk)}})

(***************************************************************************)
(* Specifications SpecWiki and SpecHistory: callers of one wiki rooted at  *)
(* "wiki" obtain Page objects for the url "h", set their metadata and      *)
(* body, save them and delete the page.  The operations do not overlap.    *)
(* SpecWiki has one caller that goes through the Wiki object; SpecHistory  *)
(* has MaxInst callers that construct their Page objects themselves, set   *)
(* the body only and save without reading the page back, each save at a    *)
(* later clock reading than the one before.                                *)
(***************************************************************************)
MaxInst == 2

Instances == 1..MaxInst

WikiRoot == <<"w", "i", "k", "i">>

WikiUrl == <<"h">>

Bodies == { <<"a">>, <<"a", "\r", "\n", "b">> }

\* the items a caller sets on a page in one go
Metas ==
    { <<>>,
      << <<<<"t", "i", "t", "l", "e">>, <<"T">>>> >>,
      << <<<<"t", "a", "g", "s">>, <<"x">>>>, <<<<"t", "i", "t", "l", "e">>, <<"U">>>> >> }

\* the content file of the url as an author left it, if any
Authored == <<"t", "i", "t", "l", "e", ":", " ", "T", "\n", "\n", "a">>

Fs == [files |-> files, dirs |-> dirs]

\* the outcome of an operation, as kept in last
Outcome(op, err, ret) ==
    [op |-> op, err |-> err, ret |-> ret, i |-> 0, existed |-> FALSE, update |-> FALSE,
     body |-> <<>>, mutated |-> FALSE]

InitWiki ==
    /\ NoFn
    /\ inst = [root |-> WikiRoot, pages |-> [i \in Instances |-> NoPage]]
    /\ dirs = Ancestors(Abs(WikiRoot))
    /\ \/ files = <<>>
       \/ files = WriteFile(<<>>, WikiPath(WikiRoot, WikiUrl), TextFile(Authored))
    /\ last = Outcome("none", "none", FALSE)
    /\ clock = 0

\* page = wiki.get(url)
Get(i) ==
    \E r \in {WikiGet(Fs, inst.root, WikiUrl)} :
        /\ files' = r.files
        /\ inst' = IF r.ret THEN [inst EXCEPT !.pages[i] = r.page] ELSE inst
        /\ last' = Outcome("get", r.err, r.ret)
        /\ UNCHANGED <<dirs, clock, fnVars>>

\* page = wiki.get_bare(url)
GetBare(i) ==
    \E r \in {WikiGetBare(Fs, inst.root, WikiUrl)} :
        /\ files' = r.files
        /\ inst' = IF r.ret THEN [inst EXCEPT !.pages[i] = r.page] ELSE inst
        /\ last' = Outcome("get_bare", r.err, r.ret)
        /\ UNCHANGED <<dirs, clock, fnVars>>

\* page = Page(wiki.path(url), url, new=True)
NewPage(i) ==
    \E path \in {WikiPath(inst.root, WikiUrl)} : \E r \in {PageInit(Fs, path, WikiUrl, TRUE)} :
        /\ files' = r.files
        /\ inst' = IF r.err = "none" THEN [inst EXCEPT !.pages[i] = r.page] ELSE inst
        /\ last' = Outcome("Page", r.err, r.err = "none")
        /\ UNCHANGED <<dirs, clock, fnVars>>

\* page[key] = value (295-296) for each of the items in turn: a key the
\* mapping holds takes the value and keeps its place, a new key goes to
\* the end, and no key is removed
RECURSIVE SetItems(_, _)
SetItems(d, items) ==
    IF items = <<>> THEN d
    ELSE SetItems(DictSet(d, Head(items)[1], Head(items)[2]), Tail(items))

\* page.body = body and page[key] = value for the items
SetContent(i, items, body) ==
    /\ inst.pages[i].live
    /\ inst' = [inst EXCEPT !.pages[i].meta = SetItems(@, items), !.pages[i].body = body,
                            !.pages[i].hasBody = TRUE]
    /\ last' = Outcome("set", "none", TRUE)
    /\ UNCHANGED <<files, dirs, clock, fnVars>>

RECURSIVE SumSaved(_)
SumSaved(n) == IF n = 0 THEN 0 ELSE Len(inst.pages[n].saved) + SumSaved(n - 1)

\* page.save(user, update) while the clock reads date and then t
Save(i, user, update, date, t) ==
    /\ inst.pages[i].live
    /\ SumSaved(MaxInst) < MaxSaves
    /\ clock <= date
    /\ date <= t
    /\ \E r \in {PageSave(Fs, inst.pages[i], user, update, date, t)} :
        /\ files' = r.files
        /\ dirs' = r.dirs
        /\ inst' = [inst EXCEPT !.pages[i] = r.page]
        /\ last' = [Outcome("save", r.err, r.err = "none") EXCEPT
                        !.i = i, !.update = update, !.body = inst.pages[i].body]
    /\ clock' = t
    /\ UNCHANGED fnVars

\* wiki.delete(url)
Delete ==
    \E r \in {WikiDelete(Fs, inst.root, WikiUrl)} :
        /\ files' = r.files
        /\ last' = [Outcome("delete", r.err, r.ret) EXCEPT
                        !.existed = WikiExists(Fs, inst.root, WikiUrl),
                        !.mutated = (r.files # files)]
        /\ UNCHANGED <<dirs, inst, clock, fnVars>>

NextWiki ==
    \/ Get(1)
    \/ GetBare(1)
    \/ \E items \in Metas, body \in Bodies : SetContent(1, items, body)
    \/ \E update \in BOOLEAN, date \in 1..MaxTime, t \in 1..MaxTime :
            Save(1, <<"u">>, update, date, t)
    \/ Delete

SpecWiki == InitWiki /\ [][NextWiki]_vars

\* C2: for a page whose history started empty, after N saves through its
\* History object the ordered key list entryKeys has length N, the history
\* holds N keys, and every key recorded by a save still holds the version
\* that save recorded, whatever the clock readings were.
HistoryKeepsEverySave ==
    \A i \in Instances :
        (inst.pages[i].live /\ inst.pages[i].loaded = 0) =>
            /\ Len(inst.pages[i].entryKeys) = Len(inst.pages[i].saved)
            /\ Cardinality(Keys(inst.pages[i].entries)) = Len(inst.pages[i].saved)
            /\ \A j \in 1..Len(inst.pages[i].saved) :
                    DictGet(inst.pages[i].entries, inst.pages[i].saved[j][1]).version
                        = inst.pages[i].saved[j][2]

\* C4: Wiki.delete of a url whose content file exists returns true and
\* leaves neither the content file nor the history file; of a url whose
\* content file does not exist it returns false and changes nothing.
DeleteRemovesBoth ==
    last.op = "delete" =>
        IF last.existed
        THEN /\ last.err = "none" /\ last.ret
             /\ ~ Exists(Fs, WikiPath(inst.root, WikiUrl))
             /\ ~ Exists(Fs, HistoryPath(WikiPath(inst.root, WikiUrl), WikiUrl))
        ELSE last.err = "none" /\ ~ last.ret /\ ~ last.mutated

\* C5: after save(user, update=True) of a page with metadata M and body B
\* the page's body is B with every "\r\n" replaced by "\n".
SaveRoundTrip ==
    (last.op = "save" /\ last.update /\ last.err # "AttributeError") =>
        /\ last.err = "none"
        /\ inst.pages[last.i].body = Replace(last.body, <<"\r", "\n">>, <<"\n">>)

InitHistory ==
    /\ NoFn
    /\ inst = [root |-> WikiRoot, pages |-> [i \in Instances |-> NoPage]]
    /\ dirs = Ancestors(Abs(WikiRoot))
    /\ files = <<>>
    /\ last = Outcome("none", "none", FALSE)
    /\ clock = 0

NextHistory ==
    \/ \E i \in Instances : NewPage(i)
    \/ \E i \in Instances, body \in Bodies : SetContent(i, <<>>, body)
    \/ \E i \in Instances, date \in 1..MaxTime, t \in 1..MaxTime :
            t > clock /\ Save(i, <<"u">>, FALSE, date, t)

SpecHistory == InitHistory /\ [][NextHistory]_vars

\* the keys of the persisted history file of the url with their versions,
\* as json.load reads them
Persisted(files_) ==
    LET path == Abs(HistoryPath(WikiPath(WikiRoot, WikiUrl), WikiUrl))
    IN  IF path \in DOMAIN files_ /\ files_[path].kind = "json"
        THEN LET d == JsonLoad(files_[path].pairs, <<>>)
             IN  {<<d[i][1].t, d[i][2].version>> : i \in 1..Len(d)}
        ELSE {}

\* C3: a save that returns never removes a key from the persisted history
\* file and never changes the version under a key the file already held,
\* also when the saves go through different Page objects of the url, each
\* constructed before another's save.
HistoryFileAppendOnly ==
    [][(last'.op = "save" /\ last'.err = "none") => Persisted(files) \subseteq Persisted(files')]_vars

(***************************************************************************)
(* Specification SpecMeta: a page whose header holds the three rating      *)
(* keys is parsed; a new Page object of the url is given the parsed        *)
(* metadata and body and saved, and the page is obtained from the wiki     *)
(* again.                                                                  *)
(***************************************************************************)
MaxRated == 5

\* the page text of a header; with again, a line follows that names the
\* key total once more in another case
HeaderText(h) ==
    Total \o <<":", " ">> \o Str(h.total) \o <<"\n">>
        \o TimesRated \o <<":", " ">> \o Str(h.timesrated) \o <<"\n">>
        \o Rating \o <<":", " ">> \o Str(h.rating) \o <<"\n">>
        \o (IF h.again THEN <<"T", "o", "t", "a", "l", ":", " ", "7", "\n">> ELSE <<>>)
        \o <<"\n", "b", "o", "d", "y">>

InitMeta ==
    /\ pc = "start"
    /\ text \in [total : 0..MaxScore, timesrated : 0..MaxRated, rating : 0..MaxScore,
                  again : BOOLEAN]
    /\ out = <<>>
    /\ out2 = <<>>
    /\ inst = [root |-> WikiRoot, pages |-> [i \in Instances |-> NoPage]]
    /\ dirs = Ancestors(Abs(WikiRoot))
    /\ files = <<>>
    /\ last = Outcome("none", "none", FALSE)
    /\ clock = 0

\* Processor(content).process()
ParseMeta ==
    /\ pc = "start"
    /\ out' = process(HeaderText(text))
    /\ pc' = "parsed"
    /\ UNCHANGED <<text, out2, fsVars>>

\* page = Page(wiki.path(url), url, new=True)
NewParsed ==
    /\ pc = "parsed"
    /\ out.err = "none"
    /\ \E path \in {WikiPath(inst.root, WikiUrl)} :
       \E r \in {PageInit(Fs, path, WikiUrl, TRUE)} :
        /\ files' = r.files
        /\ inst' = [inst EXCEPT !.pages[1] = r.page]
        /\ last' = Outcome("Page", r.err, r.err = "none")
    /\ pc' = "new"
    /\ UNCHANGED <<text, out, out2, dirs, clock>>

\* page.body = body and page[key] = value for the parsed metadata
SetParsed ==
    /\ pc = "new"
    /\ inst.pages[1].live
    /\ inst' = [inst EXCEPT !.pages[1].meta = SetItems(@, out.meta),
                            !.pages[1].body = out.body,
                            !.pages[1].hasBody = TRUE]
    /\ last' = Outcome("set", "none", TRUE)
    /\ pc' = "set"
    /\ UNCHANGED <<text, out, out2, files, dirs, clock>>

\* page.save(user, update)
SaveParsed(update) ==
    /\ pc = "set"
    /\ \E t \in 1..MaxTime : \E r \in {PageSave(Fs, inst.pages[1], <<"u">>, update, 1, t)} :
        /\ files' = r.files
        /\ dirs' = r.dirs
        /\ inst' = [inst EXCEPT !.pages[1] = r.page]
        /\ last' = [Outcome("save", r.err, r.err = "none") EXCEPT
                        !.i = 1, !.update = update, !.body = inst.pages[1].body]
        /\ clock' = t
    /\ pc' = "saved"
    /\ UNCHANGED <<text, out, out2>>

\* page = wiki.get(url): the saved page is loaded and rendered again
Reparse ==
    /\ pc = "saved"
    /\ \E r \in {WikiGet(Fs, inst.root, WikiUrl)} :
        /\ files' = r.files
        /\ inst' = IF r.ret THEN [inst EXCEPT !.pages[1] = r.page] ELSE inst
        /\ last' = Outcome("get", r.err, r.ret)
    /\ pc' = "reparsed"
    /\ UNCHANGED <<text, out, out2, dirs, clock>>

NextMeta ==
    \/ ParseMeta
    \/ NewParsed
    \/ SetParsed
    \/ \E update \in BOOLEAN : SaveParsed(update)
    \/ Reparse

SpecMeta == InitMeta /\ [][NextMeta]_vars

\* C10: from a header with total: T, timesrated: N, rating: R the parsed
\* metadata holds total = the decimal string of R + T, timesrated = the
\* decimal string of the updated count and rating = the string of (R + T)
\* divided by that count; and the page saved with that metadata is saved
\* and parsed again without error.
RatingFolded ==
    /\ pc = "parsed" =>
        /\ out.err = "none"
        /\ DictGet(out.meta, Total) = Str(text.rating + text.total)
        /\ DictGet(out.meta, TimesRated) = Str(text.timesrated + 1)
        /\ DictGet(out.meta, Rating)
              = FloatStr(text.rating + text.total, text.timesrated + 1)
    /\ pc \in {"saved", "reparsed"} => last.err = "none"

(***************************************************************************)
(* Specification SpecIndexBy: index_by on a wiki whose directory holds up  *)
(* to MaxPages page files, one of them in a subdirectory.  A page file is  *)
(* as an author wrote it, a header with title and tags and a body, or as   *)
(* get_bare left it.                                                       *)
(***************************************************************************)
MaxPages == 3

SubDir == <<"s", "u", "b">>

\* the content file of the k-th page
PageFile(k) ==
    IF k = 1 THEN Abs(WikiPath(WikiRoot, SubDir \o <<"/", "p", DigitChar(k)>>))
    ELSE Abs(WikiPath(WikiRoot, <<"p", DigitChar(k)>>))

PageText(title, tags) ==
    Title \o <<":", " ">> \o title \o <<"\n">> \o Tags \o <<":", " ">> \o tags
        \o <<"\n", "\n", "b", "o", "d", "y">>

Absent == [kind |-> "absent", chars |-> <<>>, pairs |-> <<>>]

PageContents ==
    {TextFile(PageText(title, tags)) : title \in {<<"a">>, <<"B">>},
                                       tags \in {<<"t">>, <<"u">>}}
        \cup {JsonFile(<<>>), Absent}

InitIndexBy ==
    /\ pc = "start"
    /\ text \in {Title, Tags}
    /\ out = <<>>
    /\ out2 = <<>>
    /\ inst = [root |-> WikiRoot]
    /\ dirs = Ancestors(Abs(PathJoin(WikiRoot, SubDir)))
    /\ \E c \in [1..MaxPages -> PageContents] :
        files = [f \in {PageFile(k) : k \in {j \in 1..MaxPages : c[j] # Absent}} |->
                    c[CHOOSE k \in 1..MaxPages : PageFile(k) = f]]
    /\ last = "none"
    /\ clock = 0

\* wiki.index_by(key)
GroupPages ==
    /\ pc = "start"
    /\ \E walk \in Walks(Fs, Abs(inst.root)) :
       \E r \in {index_by(Fs, inst.root, text, walk)} :
        /\ out' = [err |-> r.err, pages |-> r.pages]
        /\ files' = r.files
    /\ pc' = "grouped"
    /\ UNCHANGED <<text, out2, dirs, inst, last, clock>>

NextIndexBy == GroupPages

SpecIndexBy == InitIndexBy /\ [][NextIndexBy]_vars

\* the value of the attribute on the page stored in the file, read from
\* the header of its text
StoredAttr(file, key) ==
    GetAttr([meta |-> process(ReadText(files[file])).meta, url |-> <<>>], key)

\* C6: on a wiki whose page files all hold a header and a body,
\* index_by(key) returns a mapping whose keys are exactly the values the
\* attribute takes on the pages, each mapped to the list of exactly the
\* pages with that value, each page once.
IndexByGroups ==
    (pc = "grouped" /\ \A f \in DOMAIN files : files[f].kind = "text") =>
        /\ out.err = "none"
        /\ DOMAIN out.pages = {StoredAttr(f, text) : f \in DOMAIN files}
        /\ \A v \in DOMAIN out.pages :
            /\ ~ out.pages[v].none
            /\ {Abs(out.pages[v].items[i].path) : i \in 1..Len(out.pages[v].items)}
                    = {f \in DOMAIN files : StoredAttr(f, text) = v}
            /\ Len(out.pages[v].items)
                    = Cardinality({f \in DOMAIN files : StoredAttr(f, text) = v})

====
